---------------------------- MODULE Spec2Model ----------------------------
(***************************************************************************)
(* Open-addressing, double-hashing string hash table (src/hash_table.c).   *)
(*                                                                         *)
(* A string is a sequence of character codes.  A slot of ht->items is one  *)
(* of NULL (never used), HT_DELETED_ITEM (the shared tombstone sentinel)   *)
(* or an item holding an owned copy of a key and a value.                  *)
(*                                                                         *)
(* A probe loop of ht_insert / ht_search / ht_delete has no attempt limit. *)
(* While attempt * (hash_b + 1) fits an int, the bucket index is periodic  *)
(* in the attempt with period num_buckets, and the loop writes nothing     *)
(* before it exits: a loop that has not exited after num_buckets attempts  *)
(* runs on until that product overflows int, which is undefined.  The      *)
(* outcomes of that are a choice (overflow_exits): the call never returns  *)
(* or crashes (hung); the wrapped index is negative and the loop exits on  *)
(* a cell in front of the slot array that reads as NULL; the wrapped index *)
(* is inside the array and the loop exits on that slot.  An item that     *)
(* ht_insert stores in front of the array is counted in ht->count and is   *)
(* otherwise lost to the model; the store lands in whatever the heap holds *)
(* there, which may be the value string of an item of the table.           *)
(*                                                                         *)
(* A character code is what s[i] converts to: -128 .. 127 where char is    *)
(* signed (as on x86), 0 .. 255 where it is not.  The % of C truncates     *)
(* towards zero (c_rem).  Strings have at most 4 characters, for which     *)
(* pow() and the long accumulator of ht_hash are exact.                    *)
(***************************************************************************)
EXTENDS Integers, Sequences, FiniteSets, TLC

VARIABLES ht, hung, last, freed

vars == <<ht, hung, last, freed>>

----------------------------------------------------------------------------
(* Program constants *)

HT_PRIME_1 == 151

HT_PRIME_2 == 163

HT_INITIAL_BASE_SIZE == 50

----------------------------------------------------------------------------
(* Bounds of the model *)

\* Deletions that may accumulate as tombstones in one slot array.
MaxTombstones == 2

\* ht_resize_up is not applied to a table whose base_size exceeds this.
MaxBaseSize == 60

\* Items that may be stored outside the slot array (count minus the number
\* of Occupied slots).
MaxStray == 1

\* Number of distinct one-character keys of the fill scenario.
FillKeyCount == 60

----------------------------------------------------------------------------
(* Inputs *)

Key_i == <<105>>

Key_d == <<100>>

Key_ab == <<97, 98>>

\* "i": hash_b = 52 with 53 buckets, so its probe step is 53 = 0 (mod 53).
\* "d": hash_b = 100 with 101 buckets, so its probe step is 0 (mod 101).
\* "ab": first bucket 100 with 101 buckets, the bucket of "d".
Keys == {Key_i, Key_d, Key_ab}

Values == {"v1", "v2"}

\* The fill scenario's keys: the one-character strings from "0" (code 48) on.
FillCodes == 48 .. (48 + FillKeyCount - 1)

FillKeys == {<<c>> : c \in FillCodes}

\* The key inserted after k in the fill scenario (cyclic order of codes).
FillNext(k) == <<48 + ((k[1] - 48 + 1) % FillKeyCount)>>

FillValue == "v1"

----------------------------------------------------------------------------
(* Slots *)

\* items[i] == NULL : calloc'ed, never used.
NULL == [tag |-> "NULL", key |-> <<>>, value |-> ""]

\* static ht_item HT_DELETED_ITEM = {NULL, NULL}; compared by address.
HT_DELETED_ITEM == [tag |-> "DELETED", key |-> <<>>, value |-> ""]

\* ht_new_item: a fresh item owning copies of k and v.
ht_new_item(k, v) == [tag |-> "ITEM", key |-> k, value |-> v]

\* A slot that holds an item.
Occupied(s) == s # NULL /\ s # HT_DELETED_ITEM

\* The contents of a value string that a store outside the slot array has
\* overwritten.
CLOBBERED == "<overwritten>"

\* What ht_search returns for an absent key.
NOT_FOUND == "NULL"

\* Marks a call whose probe loop never exits.
DIVERGES == "<no return>"

----------------------------------------------------------------------------
(* Primes (next_prime is called by the source but defined outside it) *)

is_prime(x) ==
    /\ x >= 2
    /\ \A d \in 2 .. (x - 1) : d * d > x \/ x % d # 0

RECURSIVE next_prime(_)
next_prime(x) == IF is_prime(x) THEN x ELSE next_prime(x + 1)

----------------------------------------------------------------------------
(* Hashing *)

\* x % m of C for m > 0: the remainder has the sign of x.
c_rem(x, m) == IF x >= 0 THEN x % m ELSE 0 - ((0 - x) % m)

RECURSIVE pow(_, _)
pow(a, e) == IF e = 0 THEN 1 ELSE a * pow(a, e - 1)

\* The loop of ht_hash from index i (0-based) with accumulator hash.
RECURSIVE ht_hash_loop(_, _, _, _, _)
ht_hash_loop(s, a, m, i, hash) ==
    IF i >= Len(s) THEN hash
    ELSE ht_hash_loop(s, a, m, i + 1,
                      c_rem(hash + pow(a, Len(s) - (i + 1)) * s[i + 1], m))

ht_hash(s, a, m) == ht_hash_loop(s, a, m, 0, 0)

ht_get_hash(s, num_buckets, attempt) ==
    LET hash_a == ht_hash(s, HT_PRIME_1, num_buckets)
        hash_b == ht_hash(s, HT_PRIME_2, num_buckets)
    IN  c_rem(hash_a + (attempt * (hash_b + 1)), num_buckets)

----------------------------------------------------------------------------
(* Table construction *)

ht_new_sized(base_size) ==
    LET size == next_prime(base_size)
    IN  [base_size |-> base_size,
         size      |-> size,
         count     |-> 0,
         items     |-> [i \in 0 .. (size - 1) |-> NULL]]

ht_new == ht_new_sized(HT_INITIAL_BASE_SIZE)

----------------------------------------------------------------------------
(* The probe loop shared by ht_insert, ht_search and ht_delete *)

\* The probe loop from attempt 0 for key in table t, by its first exit
\* among attempts 0 .. size-1.
\* exit = "null"  : the loop condition failed at items[index] == NULL;
\* exit = "match" : items[index] is an item whose key equals key;
\* exit = "none"  : none of attempts 0 .. size-1 exits the loop.
probe(t, key) ==
    LET hash_a == ht_hash(key, HT_PRIME_1, t.size)
        hash_b == ht_hash(key, HT_PRIME_2, t.size)
        index(i) == (hash_a + (i * (hash_b + 1))) % t.size
        exits == {i \in 0 .. (t.size - 1) :
                    LET cur == t.items[index(i)]
                    IN  \/ cur = NULL
                        \/ cur # HT_DELETED_ITEM /\ cur.key = key}
    IN  IF exits = {} THEN [exit |-> "none", index |-> index(0)]
        ELSE LET i == CHOOSE i \in exits : \A i2 \in exits : i <= i2
             IN  IF t.items[index(i)] = NULL
                   THEN [exit |-> "null", index |-> index(i)]
                 ELSE [exit |-> "match", index |-> index(i)]

\* 2^32 modulo m, in 32-bit safe arithmetic.
wrap_mod(m) == ((65536 % m) * (65536 % m)) % m

\* Outcomes of a probe loop that has no exit among attempts 0 .. size-1,
\* once attempt * (hash_b + 1) has overflowed int.  With the product
\* wrapped k times the index is congruent to hash_a + attempt * step
\* - k * 2^32: below zero (a cell in front of the array) while the wrapped
\* product is negative, inside the array while it is positive.
\* exit = "hang" : the loop never exits, or the process crashes on a cell
\*                 outside the array;
\* exit = "oob"  : the loop exits on a cell outside the array that reads
\*                 as NULL; index is -1, or the slot of an item of the
\*                 table if the cell lies in the value string of that item
\*                 (its terminator and the padding behind it);
\* exit = "null" / "match" : the loop exits on slot index of the array.
\* If the step is not 0 modulo size, every slot of the array has been seen
\* and is neither NULL nor a match, so only the first two remain.  If the
\* step is 0 modulo size, wrap k probes the one slot
\* (hash_a - k * 2^32) mod size, after the cell size below it.
overflow_exits(t, key) ==
    LET m == t.size
        hash_a == ht_hash(key, HT_PRIME_1, m)
        hash_b == ht_hash(key, HT_PRIME_2, m)
        wraps == 1 .. (m \div 2)
        slot(k) == (((hash_a - k * wrap_mod(m)) % m) + m) % m
        exits == {k \in wraps :
                    LET cur == t.items[slot(k)]
                    IN  \/ cur = NULL
                        \/ cur # HT_DELETED_ITEM /\ cur.key = key}
        first == CHOOSE k \in exits : \A k2 \in exits : k <= k2
    IN  {[exit |-> "hang", index |-> -1]}
        \cup
        {[exit |-> "oob", index |-> j] :
           j \in {-1} \cup {i \in 0 .. (m - 1) : Occupied(t.items[i])}}
        \cup
        (IF (hash_b + 1) % m = 0 /\ exits # {}
           THEN {[exit |-> IF t.items[slot(first)] = NULL
                            THEN "null" ELSE "match",
                  index |-> slot(first)]}
         ELSE {})

\* The exits the probe loop of a call can take.
probe_exits(t, key) ==
    LET p == probe(t, key)
    IN  IF p.exit # "none" THEN {p} ELSE overflow_exits(t, key)

----------------------------------------------------------------------------
(* Operations.  A call has a set of outcomes (one, unless its probe loop   *)
(* overflows): [ret |-> the call returns, ht |-> the table after it].      *)

\* ht_insert when its loop takes exit p.
insert_at(t, key, value, p) ==
    IF p.exit = "match"
      THEN [ret |-> TRUE,
            ht  |-> [t EXCEPT !.items[p.index] = ht_new_item(key, value)]]
    ELSE IF p.exit = "null"
      THEN [ret |-> TRUE,
            ht  |-> [t EXCEPT !.items[p.index] = ht_new_item(key, value),
                              !.count = t.count + 1]]
    ELSE IF p.exit = "oob" /\ p.index < 0
      THEN [ret |-> TRUE, ht |-> [t EXCEPT !.count = t.count + 1]]
    ELSE IF p.exit = "oob"
      THEN [ret |-> TRUE,
            ht  |-> [t EXCEPT !.items[p.index].value = CLOBBERED,
                              !.count = t.count + 1]]
    ELSE [ret |-> FALSE, ht |-> t]

\* ht_insert as it would be if it stored the item in the first slot of the
\* probe sequence that is NULL or a tombstone, without walking on to a
\* later slot that already holds the key.
ht_insert_first_free(t, key, value) ==
    LET free == {i \in 0 .. (t.size - 1) :
                   LET cur == t.items[ht_get_hash(key, t.size, i)]
                   IN  \/ cur = NULL
                       \/ cur = HT_DELETED_ITEM
                       \/ cur.key = key}
        i == CHOOSE i \in free : \A i2 \in free : i <= i2
        index == ht_get_hash(key, t.size, i)
    IN  IF free = {} THEN {[ret |-> FALSE, ht |-> t]}
        ELSE IF Occupied(t.items[index])
          THEN {[ret |-> TRUE,
                 ht  |-> [t EXCEPT !.items[index] = ht_new_item(key, value)]]}
        ELSE {[ret |-> TRUE,
               ht  |-> [t EXCEPT !.items[index] = ht_new_item(key, value),
                                 !.count = t.count + 1]]}

ht_insert(t, key, value) ==
    {insert_at(t, key, value, p) : p \in probe_exits(t, key)}

\* ht_search when its loop takes exit p.
search_at(t, p) ==
    IF p.exit = "match" THEN t.items[p.index].value
    ELSE IF p.exit \in {"null", "oob"} THEN NOT_FOUND
    ELSE DIVERGES

ht_search(t, key) == {search_at(t, p) : p \in probe_exits(t, key)}

\* A delete that empties the slot instead of leaving the tombstone.
delete_at_null(t, p) ==
    IF p.exit = "match"
      THEN [ret |-> TRUE,
            ht  |-> [t EXCEPT !.items[p.index] = NULL,
                              !.count = t.count - 1]]
    ELSE IF p.exit \in {"null", "oob"}
      THEN [ret |-> TRUE, ht |-> t]
    ELSE [ret |-> FALSE, ht |-> t]

\* ht_delete when its loop takes exit p.
delete_at(t, p) ==
    IF p.exit = "match"
      THEN [ret |-> TRUE,
            ht  |-> [t EXCEPT !.items[p.index] = HT_DELETED_ITEM,
                              !.count = t.count - 1]]
    ELSE IF p.exit \in {"null", "oob"}
      THEN [ret |-> TRUE, ht |-> t]
    ELSE [ret |-> FALSE, ht |-> t]

ht_delete(t, key) == {delete_at(t, p) : p \in probe_exits(t, key)}

\* The least index j >= i of an item of t (neither NULL nor the sentinel),
\* t.size when there is none: the slots the loop of ht_resize skips.
next_item(t, i) ==
    LET live == {j \in i .. (t.size - 1) :
                   t.items[j] # NULL /\ t.items[j] # HT_DELETED_ITEM}
    IN  IF live = {} THEN t.size
        ELSE CHOOSE j \in live : \A j2 \in live : j <= j2

\* The re-insertion loop of ht_resize from slot i of the old table t into
\* new_ht; an ht_insert that does not return ends it.
RECURSIVE ht_resize_loop(_, _, _)
ht_resize_loop(t, new_ht, i) ==
    LET j == next_item(t, i)
    IN  IF j >= t.size THEN {[ret |-> TRUE, ht |-> new_ht]}
        ELSE UNION {IF r.ret THEN ht_resize_loop(t, r.ht, j + 1)
                    ELSE {[ret |-> FALSE, ht |-> new_ht]} :
                    r \in ht_insert(new_ht, t.items[j].key, t.items[j].value)}

\* A swap that takes over the slot array but leaves the old capacity.
resize_swap_keep_size(t, r) ==
    IF r.ret
      THEN [ret |-> TRUE,
            ht  |-> [base_size |-> r.ht.base_size,
                     count     |-> r.ht.count,
                     size      |-> t.size,
                     items     |-> r.ht.items]]
    ELSE [ret |-> FALSE, ht |-> t]

\* ht_resize once its loop has ended with outcome r.
resize_swap(t, r) ==
    IF r.ret
      THEN [ret |-> TRUE,
            ht  |-> [base_size |-> r.ht.base_size,
                     count     |-> r.ht.count,
                     size      |-> r.ht.size,
                     items     |-> r.ht.items]]
    ELSE [ret |-> FALSE, ht |-> t]

\* A resize without the test against HT_INITIAL_BASE_SIZE.
ht_resize_no_floor(t, base_size) ==
    {resize_swap(t, r) :
       r \in ht_resize_loop(t, ht_new_sized(base_size), 0)}

ht_resize(t, base_size) ==
    IF base_size < HT_INITIAL_BASE_SIZE THEN {[ret |-> TRUE, ht |-> t]}
    ELSE {resize_swap(t, r) :
            r \in ht_resize_loop(t, ht_new_sized(base_size), 0)}

ht_resize_up(t) == ht_resize(t, next_prime(t.base_size * 2))

ht_resize_down(t) == ht_resize(t, next_prime(t.base_size \div 2))

----------------------------------------------------------------------------
(* Teardown *)

\* A memory object the table points to: the key string, the value string
\* or the item record of slot i, the static sentinel, the slot array, the
\* table record.  The key and value pointers of the sentinel are NULL.
Block(obj, i) == [obj |-> obj, slot |-> i]

SENTINEL == Block("HT_DELETED_ITEM", -1)

ITEMS == Block("items", -1)

TABLE == Block("ht", -1)

\* The pointers ht_del_item passes to free for the item in slot i of t,
\* free(NULL) left out.
ht_del_item(t, i) ==
    IF t.items[i] = HT_DELETED_ITEM THEN {SENTINEL}
    ELSE {Block("key", i), Block("value", i), Block("item", i)}

\* The calls of free made for the slots in S and for the blocks in B:
\* how many times each pointer is passed to free.
Frees(t, S, B) ==
    LET ptrs == UNION {ht_del_item(t, i) : i \in S} \cup B
    IN  [b \in ptrs |->
           Cardinality({i \in S : b \in ht_del_item(t, i)})
             + (IF b \in B THEN 1 ELSE 0)]

\* No call of free.
NoFrees == [b \in {} |-> 0]

\* ht_del_hash_table.  free of the sentinel, which malloc never returned,
\* is undefined: the allocator ends the program at that call (ret FALSE,
\* as glibc does), or the loop goes on and the call returns.
ht_del_hash_table(t) ==
    LET nonnull == {i \in 0 .. (t.size - 1) : t.items[i] # NULL}
        dead    == {i \in nonnull : t.items[i] = HT_DELETED_ITEM}
    IN  {[ret |-> TRUE, frees |-> Frees(t, nonnull, {ITEMS, TABLE})]}
        \cup
        {[ret   |-> FALSE,
          frees |-> Frees(t, {i \in nonnull : i <= j}, {})] :
           j \in {d \in dead : \A d2 \in dead : d <= d2}}

----------------------------------------------------------------------------
(* Observers *)

Indices(t) == 0 .. (t.size - 1)

OccupiedSlots(t) == {i \in Indices(t) : Occupied(t.items[i])}

Tombstones(t) == {i \in Indices(t) : t.items[i] = HT_DELETED_ITEM}

SlotsOf(t, k) == {i \in OccupiedSlots(t) : t.items[i].key = k}

Present(t, k) == SlotsOf(t, k) # {}

\* Items counted by the table that no slot of the array holds.
Stray(t) == t.count - Cardinality(OccupiedSlots(t))

----------------------------------------------------------------------------
(* State machine *)

\* last records the latest call: its name, arguments and, in found, whether
\* the key was in the table when the call was made.
Call(op, k, v, f) == [op |-> op, key |-> k, value |-> v, found |-> f]

\* ht_del_hash_table has been called: the table is gone and no call may
\* use it (ht keeps the contents it had at that call).
Destroyed == last.op = "destroy"

Init ==
    /\ ht = ht_new
    /\ hung = FALSE
    /\ last = Call("new", <<>>, "", FALSE)
    /\ freed = NoFrees

Insert(k, v) ==
    /\ ~hung
    /\ ~Destroyed
    /\ \E r \in ht_insert(ht, k, v) :
         /\ Stray(r.ht) <= MaxStray
         /\ ht' = r.ht
         /\ hung' = ~r.ret
    /\ last' = Call("insert", k, v, Present(ht, k))
    /\ UNCHANGED freed

Search(k) ==
    /\ ~hung
    /\ ~Destroyed
    /\ \E v \in ht_search(ht, k) :
         /\ hung' = (v = DIVERGES)
         /\ last' = Call("search", k, v, Present(ht, k))
    /\ UNCHANGED <<ht, freed>>

Delete(k) ==
    /\ ~hung
    /\ ~Destroyed
    /\ Present(ht, k) => Cardinality(Tombstones(ht)) < MaxTombstones
    /\ \E r \in ht_delete(ht, k) :
         /\ ht' = r.ht
         /\ hung' = ~r.ret
    /\ last' = Call("delete", k, "", Present(ht, k))
    /\ UNCHANGED freed

ResizeUp ==
    /\ ~hung
    /\ ~Destroyed
    /\ ht.base_size <= MaxBaseSize
    /\ \E r \in ht_resize_up(ht) :
         /\ Stray(r.ht) <= MaxStray
         /\ ht' = r.ht
         /\ hung' = ~r.ret
    /\ last' = Call("resize_up", <<>>, "", FALSE)
    /\ UNCHANGED freed

ResizeDown ==
    /\ ~hung
    /\ ~Destroyed
    /\ \E r \in ht_resize_down(ht) :
         /\ Stray(r.ht) <= MaxStray
         /\ ht' = r.ht
         /\ hung' = ~r.ret
    /\ last' = Call("resize_down", <<>>, "", FALSE)
    /\ UNCHANGED freed

\* The public interface: insert, search, delete on a table made by ht_new.
Next ==
    \/ \E k \in Keys, v \in Values : Insert(k, v)
    \/ \E k \in Keys : Search(k)
    \/ \E k \in Keys : Delete(k)

Spec == Init /\ [][Next]_vars

\* The public interface together with the two resize entry points.
NextResize ==
    \/ \E k \in Keys, v \in Values : Insert(k, v)
    \/ \E k \in Keys : Search(k)
    \/ \E k \in Keys : Delete(k)
    \/ ResizeUp
    \/ ResizeDown

SpecResize == Init /\ [][NextResize]_vars

\* Fill scenario: inserts of pairwise distinct keys only, in cyclic order
\* of character code from an arbitrary first key, until the keys run out.
FillInsert ==
    /\ ~hung
    /\ ~Destroyed
    /\ \E k \in FillKeys :
         /\ last.op = "insert" => k = FillNext(last.key)
         /\ ~Present(ht, k)
         /\ \E r \in ht_insert(ht, k, FillValue) :
              /\ Stray(r.ht) <= MaxStray
              /\ ht' = r.ht
              /\ hung' = ~r.ret
         /\ last' = Call("insert", k, FillValue, FALSE)
    /\ UNCHANGED freed

NextFill == FillInsert

SpecFill == Init /\ [][NextFill]_vars

Destroy ==
    /\ ~hung
    /\ ~Destroyed
    /\ \E r \in ht_del_hash_table(ht) :
         /\ freed' = r.frees
         /\ hung' = ~r.ret
    /\ last' = Call("destroy", <<>>, "", FALSE)
    /\ UNCHANGED ht

\* The life of one table: insert, search and delete calls, then
\* ht_del_hash_table.
NextDestroy ==
    \/ \E k \in Keys, v \in Values : Insert(k, v)
    \/ \E k \in Keys : Search(k)
    \/ \E k \in Keys : Delete(k)
    \/ Destroy

SpecDestroy == Init /\ [][NextDestroy]_vars

\* Strings for the hash functions: the empty string, keys of the table,
\* and strings with bytes above 127 ("\xe9" and the UTF-8 bytes 0xc3 0xa9
\* of the same letter), as a build with signed char reads them (negative
\* codes) and as a build with unsigned char does.
HashStrings ==
    {<<>>, Key_i, Key_d, Key_ab, <<97>>, <<99, 97, 102, 101>>,
     <<-23>>, <<104, -61, -87>>,
     <<233>>, <<104, 195, 169>>}

HashMultipliers == {HT_PRIME_1, HT_PRIME_2}

\* Bucket counts: the capacities the table takes and small moduli.
HashModuli == {1, 2, 7, next_prime(HT_INITIAL_BASE_SIZE), 101}

\* The record of a call of a hash function and the int it returned.
HashCall(op, str, a, m, attempt, result) ==
    [op |-> op, key |-> str, value |-> "", found |-> FALSE,
     a |-> a, m |-> m, attempt |-> attempt, result |-> result]

Hash(str, a, m) ==
    /\ last' = HashCall("ht_hash", str, a, m, 0, ht_hash(str, a, m))
    /\ UNCHANGED <<ht, hung, freed>>

GetHash(str, m, attempt) ==
    /\ last' = HashCall("ht_get_hash", str, 0, m, attempt,
                        ht_get_hash(str, m, attempt))
    /\ UNCHANGED <<ht, hung, freed>>

\* Calls of the two hash functions on their own.
NextHash ==
    \/ \E str \in HashStrings, a \in HashMultipliers, m \in HashModuli :
         Hash(str, a, m)
    \/ \E str \in HashStrings, m \in HashModuli :
         \E attempt \in 0 .. (m - 1) : GetHash(str, m, attempt)

SpecHash == Init /\ [][NextHash]_vars

----------------------------------------------------------------------------
(* Properties *)

\* The value stored for k in t, NOT_FOUND when no slot holds k.
Lookup(t, k) ==
    IF Present(t, k) THEN t.items[CHOOSE i \in SlotsOf(t, k) : TRUE].value
    ELSE NOT_FOUND

\* The bucket of attempt a of k's probe sequence in t.
ProbeIndex(t, k, a) == ht_get_hash(k, t.size, a)

\* C1 (round trip): in every state reached by insert and delete calls, for
\* every key k and value v, insert(t, k, v) returns and search(t, k) then
\* returns v.
C1_RoundTrip ==
    ~hung =>
      \A k \in Keys, v \in Values :
        \A r \in ht_insert(ht, k, v) :
          r.ret /\ ht_search(r.ht, k) = {v}

\* C2 (overwrite): insert(t, k, v1); insert(t, k, v2) makes search(t, k)
\* return v2, and the second insert leaves count and the slot of k unchanged.
C2_Overwrite ==
    ~hung =>
      \A k \in Keys, v1 \in Values, v2 \in Values :
        \A r1 \in ht_insert(ht, k, v1) :
          /\ r1.ret
          /\ \A r2 \in ht_insert(r1.ht, k, v2) :
               /\ r2.ret
               /\ ht_search(r2.ht, k) = {v2}
               /\ r2.ht.count = r1.ht.count
               /\ SlotsOf(r2.ht, k) = SlotsOf(r1.ht, k)
               /\ Cardinality(SlotsOf(r2.ht, k)) = 1

\* C3 (deletion): for a key k in the table, delete(t, k) makes search(t, k)
\* report not-found, turns the slot of k into a tombstone and decreases
\* count by exactly 1.
C3_Deletion ==
    ~hung =>
      \A k \in Keys :
        Present(ht, k) =>
          \A r \in ht_delete(ht, k) :
            /\ r.ret
            /\ ht_search(r.ht, k) = {NOT_FOUND}
            /\ \A i \in SlotsOf(ht, k) : r.ht.items[i] = HT_DELETED_ITEM
            /\ r.ht.count = ht.count - 1

\* C4 (delete then reinsert): insert(t, k, v1); delete(t, k);
\* insert(t, k, v2) leaves search(t, k) = v2, exactly one slot holding k and
\* count as it was before the delete.
C4_DeleteReinsert ==
    ~hung =>
      \A k \in Keys, v1 \in Values, v2 \in Values :
        \A r1 \in ht_insert(ht, k, v1) :
          /\ r1.ret
          /\ \A r2 \in ht_delete(r1.ht, k) :
               /\ r2.ret
               /\ \A r3 \in ht_insert(r2.ht, k, v2) :
                    /\ r3.ret
                    /\ ht_search(r3.ht, k) = {v2}
                    /\ Cardinality(SlotsOf(r3.ht, k)) = 1
                    /\ r3.ht.count = r1.ht.count

\* C5 (delete of an absent key): delete(t, k) for a key k not in the table,
\* also when repeated, returns and leaves slots, capacity and count as they
\* were.
C5_DeleteAbsentNoOp ==
    ~hung =>
      \A k \in Keys :
        ~Present(ht, k) =>
          \A r1 \in ht_delete(ht, k) :
            /\ r1.ret /\ r1.ht = ht
            /\ \A r2 \in ht_delete(r1.ht, k) : r2.ret /\ r2.ht = ht

\* C6 (load factor bound): after N inserts of distinct keys into a table
\* made by create(), capacity >= N / 0.7 (here N = count: the fill scenario
\* inserts distinct keys and deletes nothing).
C6_LoadFactorBound ==
    ~hung => 10 * ht.count <= 7 * ht.size

\* C7 (termination): no call hangs, because in every state the probe
\* sequence of every key reaches an Empty slot or the key itself within
\* capacity probes.
C7_Termination ==
    /\ ~hung
    /\ \A k \in Keys : probe(ht, k).exit # "none"

\* The base sizes ht_resize_up and ht_resize_down pass to ht_resize.
ResizeTargets(t) ==
    {next_prime(t.base_size * 2), next_prime(t.base_size \div 2)}

\* C8 (resize preserves contents): ht_resize to an accepted base size
\* returns, every key is afterwards found by search exactly as it was stored
\* before, and count is unchanged.
C8_ResizePreserves ==
    ~hung =>
      \A b \in ResizeTargets(ht) :
        b >= HT_INITIAL_BASE_SIZE =>
          \A r \in ht_resize(ht, b) :
            /\ r.ret
            /\ \A k \in Keys : ht_search(r.ht, k) = {Lookup(ht, k)}
            /\ r.ht.count = ht.count

\* C9 (unique keys): no two Occupied slots hold the same key, in every
\* state reached by insert, delete and resize.
C9_UniqueKeys ==
    \A i \in OccupiedSlots(ht), j \in OccupiedSlots(ht) :
      ht.items[i].key = ht.items[j].key => i = j

\* C9 witness: an insert of a key that was present has returned, the key
\* sits at a later attempt of its probe sequence than a tombstone.
C9_Witness ==
    /\ ~hung /\ last.op = "insert" /\ last.found
    /\ \E a \in 1 .. (ht.size - 1) :
         /\ ProbeIndex(ht, last.key, a) \in SlotsOf(ht, last.key)
         /\ \E b \in 0 .. (a - 1) :
              ht.items[ProbeIndex(ht, last.key, b)] = HT_DELETED_ITEM

\* C10 (count accuracy): count is the number of Occupied slots, tombstones
\* and Empty slots not counted, and 0 <= count <= capacity.
C10_CountAccurate ==
    /\ ht.count = Cardinality(OccupiedSlots(ht))
    /\ 0 <= ht.count /\ ht.count <= ht.size

\* n has no divisor other than 1 and itself.
NoProperDivisor(n) == n >= 2 /\ \A d \in 2 .. (n - 1) : n % d # 0

\* C11 (capacity always prime): in every state reached by insert, search,
\* delete and resize calls, the capacity of the table is a prime number, and
\* it is the least prime that is not below the base size.
C11_CapacityPrime ==
    /\ NoProperDivisor(ht.size)
    /\ ht.size >= ht.base_size
    /\ \A n \in ht.base_size .. (ht.size - 1) : ~NoProperDivisor(n)
    /\ DOMAIN ht.items = 0 .. (ht.size - 1)

\* A resize-up that returned and gave the table a new capacity.
C11_Witness ==
    /\ ~hung
    /\ last.op = "resize_up"
    /\ ht.size > next_prime(HT_INITIAL_BASE_SIZE)

\* What the table t owns: the key, the value and the item of every
\* Occupied slot, the slot array and the table itself.
Owned(t) ==
    {Block(o, i) : o \in {"key", "value", "item"}, i \in OccupiedSlots(t)}
      \cup {ITEMS, TABLE}

\* C12 (teardown): after any sequence of inserts and deletes,
\* ht_del_hash_table returns having passed to free each block the table
\* owns exactly once and nothing else: no leak, no double free, no free of
\* the static tombstone sentinel.
C12_TeardownExact ==
    last.op = "destroy" =>
      /\ ~hung
      /\ freed = [b \in Owned(ht) |-> 1]

\* C13 (returned-value validity): the value that search(t, k) returns for a
\* key k of the table is still the value held for k, unchanged, after any
\* insert or delete on a different key k2 that returns.
C13_ReturnedValueValid ==
    ~hung =>
      \A k \in Keys :
        Present(ht, k) =>
          \A k2 \in Keys \ {k} :
            /\ \A v \in Values :
                 \A r \in ht_insert(ht, k2, v) :
                   r.ret => Lookup(r.ht, k) = Lookup(ht, k)
            /\ \A r \in ht_delete(ht, k2) :
                 r.ret => Lookup(r.ht, k) = Lookup(ht, k)

\* C14 (base-size floor): in every state reached by insert, search, delete
\* and resize calls, base_size is at least HT_INITIAL_BASE_SIZE, and a
\* resize to a base size below it -- by ht_resize or through
\* ht_resize_down -- returns with the table exactly as it was.
C14_BaseSizeFloor ==
    /\ ht.base_size >= HT_INITIAL_BASE_SIZE
    /\ \A b \in 0 .. (HT_INITIAL_BASE_SIZE - 1) :
         ht_resize(ht, b) = {[ret |-> TRUE, ht |-> ht]}
    /\ next_prime(ht.base_size \div 2) < HT_INITIAL_BASE_SIZE =>
         ht_resize_down(ht) = {[ret |-> TRUE, ht |-> ht]}

\* ht_resize_down was called on a table of the initial base size that
\* holds items and a tombstone: its target is below the floor.
C14_Witness ==
    /\ ~hung
    /\ last.op = "resize_down"
    /\ ht.base_size = HT_INITIAL_BASE_SIZE
    /\ OccupiedSlots(ht) # {}
    /\ Tombstones(ht) # {}

\* The step between two attempts of k's probe sequence in t, modulo the
\* capacity.
ProbeStep(t, k) == c_rem(ht_hash(k, HT_PRIME_2, t.size) + 1, t.size)

\* C15 (probe step never zero): for every key, the step hash_b + 1 of
\* ht_get_hash is not zero modulo the capacity, and the attempts
\* 0 .. capacity - 1 visit that many distinct buckets.
C15_StepNeverZero ==
    \A k \in Keys :
      /\ ProbeStep(ht, k) # 0
      /\ Cardinality({ProbeIndex(ht, k, a) : a \in 0 .. (ht.size - 1)})
           = ht.size

\* C16 (other keys untouched): in every state reached by insert and delete
\* calls, an insert or a delete of a key k that returns leaves what
\* search returns for every other key k2 as it was.
C16_OtherKeysUntouched ==
    ~hung =>
      \A k \in Keys :
        \A k2 \in Keys \ {k} :
          /\ \A v \in Values :
               \A r \in ht_insert(ht, k, v) :
                 r.ret => ht_search(r.ht, k2) = ht_search(ht, k2)
          /\ \A r \in ht_delete(ht, k) :
               r.ret => ht_search(r.ht, k2) = ht_search(ht, k2)

\* The slots whose contents differ between the tables t and u.
ChangedSlots(t, u) == {i \in Indices(t) : u.items[i] # t.items[i]}

\* The transitions of one slot that an insert may make: Empty to Occupied,
\* Occupied to Occupied with the same key, Tombstone to Occupied.
InsertTransition(old, new) ==
    /\ Occupied(new)
    /\ Occupied(old) => old.key = new.key

\* The transition of one slot that a delete may make: Occupied to
\* Tombstone.
DeleteTransition(old, new) == Occupied(old) /\ new = HT_DELETED_ITEM

\* C17 (slot state machine): in every state reached by insert and delete
\* calls, an insert or a delete changes at most one slot, an insert only
\* by Empty -> Occupied, Occupied -> Occupied with the same key or
\* Tombstone -> Occupied, a delete only by Occupied -> Tombstone; no slot
\* goes back to Empty, and the capacity stays.
C17_SlotStateMachine ==
    \A k \in Keys :
      /\ \A v \in Values :
           \A r \in ht_insert(ht, k, v) :
             /\ DOMAIN r.ht.items = DOMAIN ht.items
             /\ Cardinality(ChangedSlots(ht, r.ht)) <= 1
             /\ \A i \in ChangedSlots(ht, r.ht) :
                  InsertTransition(ht.items[i], r.ht.items[i])
      /\ \A r \in ht_delete(ht, k) :
           /\ DOMAIN r.ht.items = DOMAIN ht.items
           /\ Cardinality(ChangedSlots(ht, r.ht)) <= 1
           /\ \A i \in ChangedSlots(ht, r.ht) :
                DeleteTransition(ht.items[i], r.ht.items[i])

\* An overwrite has just been made in a table that already holds a
\* tombstone and an item of another key.
C17_Witness ==
    /\ ~hung
    /\ last.op = "insert"
    /\ last.found
    /\ Tombstones(ht) # {}
    /\ Cardinality(OccupiedSlots(ht)) >= 2

\* The table u is a rebuild of base size b: its capacity is the least
\* prime not below b and it holds no tombstone.
RebuiltAt(u, b) ==
    /\ u.base_size = b
    /\ u.size = next_prime(b)
    /\ Tombstones(u) = {}

\* C18 (resize targets): a resize-up that returns leaves a table rebuilt
\* at exactly twice the previous base size, and a resize-down whose half is
\* not below the floor one rebuilt at exactly half of it; the capacity is
\* the next prime from the new base size and no tombstone is left.
C18_ResizeTargets ==
    ~hung =>
      /\ \A r \in ht_resize_up(ht) :
           r.ret => RebuiltAt(r.ht, ht.base_size * 2)
      /\ (ht.base_size \div 2) >= HT_INITIAL_BASE_SIZE =>
           \A r \in ht_resize_down(ht) :
             r.ret => RebuiltAt(r.ht, ht.base_size \div 2)

\* The polynomial of the character codes of str in base a:
\* str[1] * a^(n-1) + ... + str[n] * a^0.
RECURSIVE Polynomial(_, _)
Polynomial(str, a) ==
    IF str = <<>> THEN 0
    ELSE Polynomial(SubSeq(str, 1, Len(str) - 1), a) * a + str[Len(str)]

\* C19 (hash and probe index range): ht_hash(s, a, m) is in 0 .. m-1 and
\* is the polynomial of s in base a reduced modulo m, 0 for the empty
\* string; every index ht_get_hash returns for an attempt below the
\* capacity is in 0 .. capacity-1.
C19_HashRange ==
    /\ last.op = "ht_hash" =>
         /\ last.result \in 0 .. (last.m - 1)
         /\ last.result = Polynomial(last.key, last.a) % last.m
         /\ last.key = <<>> => last.result = 0
    /\ last.op = "ht_get_hash" =>
         last.result \in 0 .. (last.m - 1)

\* C20 (probe-chain invariant): in every state reached by insert, search,
\* delete and resize calls, every Occupied slot is the bucket of some
\* attempt below the capacity of the probe sequence of the key it holds,
\* and no bucket of an earlier attempt of that sequence is Empty.
C20_ProbeChain ==
    \A i \in OccupiedSlots(ht) :
      \E a \in 0 .. (ht.size - 1) :
        /\ ProbeIndex(ht, ht.items[i].key, a) = i
        /\ \A b \in 0 .. (a - 1) :
             ht.items[ProbeIndex(ht, ht.items[i].key, b)] # NULL

============================================================================
